---- MODULE Spec2Model ----
(***************************************************************************)
(* The in-memory lookup cache of freegeoip (cache.go): the one-time load   *)
(* of the four relations (NewCache), the lookup (Cache.Query with          *)
(* Cache.Update), and the named-counter registry (MetricRegistry).         *)
(*                                                                         *)
(* A uint32 is written as two 16-bit limbs <<hi, lo>>, compared as the     *)
(* number hi * 65536 + lo: the upper half of the IPv4 space does not fit a *)
(* signed 32-bit integer.                                                  *)
(* A float32 coordinate is written as a whole number of degrees; 0 is the  *)
(* zero value.                                                             *)
(***************************************************************************)
EXTENDS Integers, Sequences, FiniteSets, TLC

VARIABLES
    pc,        \* NewCache: "countries", "regions", "locations", "blocks", "done", "fatal"
    cache,     \* the Cache under construction, then shared
    rowsErr,   \* some row.Next() returned false with rows.Err() # nil
    qIP,       \* the address of the last sequential Query (<<>>: none yet)
    geoip,     \* the *GeoIP that Query returned
    tl,        \* concurrent callers: each one's locals (pc, IP, nIP, n, geoip)
    objs,      \* the GeoIP objects the concurrent callers allocated
    Metrics,   \* MetricRegistry.Metrics: name -> counter cell
    nIncr,     \* history: Incr(name) calls since the last Reset(name)
    nDecr,     \* history: Decr(name) calls since the last Reset(name)
    touched,   \* history: the names a registry operation was called with
    got        \* history: the last registry call, with what it returned

vars == <<pc, cache, rowsErr, qIP, geoip, tl, objs, Metrics, nIncr, nDecr, touched, got>>

cacheVars  == <<pc, cache, rowsErr, qIP, geoip>>
concVars   == <<tl, objs>>
metricVars == <<Metrics, nIncr, nDecr, touched, got>>

----------------------------------------------------------------------------
(* Bounds of the model. *)

MaxBlocks == 3       \* rows of city_blocks the Loader reads
MaxConcBlocks == 2   \* rows of the index the concurrent callers share
MaxCount == 2        \* Incr (and Decr) calls per name between two Resets

----------------------------------------------------------------------------
(* uint32 and net.IP *)

U32(IP) == <<IP[1] * 256 + IP[2], IP[3] * 256 + IP[4]>>

Lt32(a, b) == a[1] < b[1] \/ (a[1] = b[1] /\ a[2] < b[2])
Gt32(a, b) == Lt32(b, a)
Le32(a, b) == ~Lt32(b, a)

IPv4(a, b, c, d) == <<a, b, c, d>>
IPv4Mask(a, b, c, d) == <<a, b, c, d>>

\* IP.String() of a 4-byte address: dotted decimal.
IPString(IP) ==
    ToString(IP[1]) \o "." \o ToString(IP[2]) \o "." \o ToString(IP[3]) \o "." \o ToString(IP[4])

\* x & m for a mask byte m = 256 - 2^k (every byte of the table's masks).
AndByte(x, m) == x - (x % (256 - m))

\* net.IPNet.Contains: every byte agrees under the mask.
Contains(net, IP) ==
    \A i \in 1..4 : AndByte(net.IP[i], net.Mask[i]) = AndByte(IP[i], net.Mask[i])

reservedIPs == <<
    [IP |-> IPv4(0, 0, 0, 0),         Mask |-> IPv4Mask(255, 0, 0, 0)],
    [IP |-> IPv4(10, 0, 0, 0),        Mask |-> IPv4Mask(255, 0, 0, 0)],
    [IP |-> IPv4(100, 64, 0, 0),      Mask |-> IPv4Mask(255, 192, 0, 0)],
    [IP |-> IPv4(127, 0, 0, 0),       Mask |-> IPv4Mask(255, 0, 0, 0)],
    [IP |-> IPv4(169, 254, 0, 0),     Mask |-> IPv4Mask(255, 255, 0, 0)],
    [IP |-> IPv4(172, 16, 0, 0),      Mask |-> IPv4Mask(255, 240, 0, 0)],
    [IP |-> IPv4(192, 0, 0, 0),       Mask |-> IPv4Mask(255, 255, 255, 248)],
    [IP |-> IPv4(192, 0, 2, 0),       Mask |-> IPv4Mask(255, 255, 255, 0)],
    [IP |-> IPv4(192, 88, 99, 0),     Mask |-> IPv4Mask(255, 255, 255, 0)],
    [IP |-> IPv4(192, 168, 0, 0),     Mask |-> IPv4Mask(255, 255, 0, 0)],
    [IP |-> IPv4(198, 18, 0, 0),      Mask |-> IPv4Mask(255, 254, 0, 0)],
    [IP |-> IPv4(198, 51, 100, 0),    Mask |-> IPv4Mask(255, 255, 255, 0)],
    [IP |-> IPv4(203, 0, 113, 0),     Mask |-> IPv4Mask(255, 255, 255, 0)],
    [IP |-> IPv4(224, 0, 0, 0),       Mask |-> IPv4Mask(240, 0, 0, 0)],
    [IP |-> IPv4(240, 0, 0, 0),       Mask |-> IPv4Mask(240, 0, 0, 0)],
    [IP |-> IPv4(255, 255, 255, 255), Mask |-> IPv4Mask(255, 255, 255, 255)] >>

----------------------------------------------------------------------------
(* The data model *)

\* A Go map: a function on the keys present; a missing key reads the zero value.
EmptyMap == [k \in {} |-> ""]
MapPut(m, k, v) == [x \in (DOMAIN m) \cup {k} |-> IF x = k THEN v ELSE m[x]]
MapGet(m, k) == IF k \in DOMAIN m THEN m[k] ELSE ""

RegionKey(cc, rc) == <<cc, rc>>

Location(cc, rc, city, zip, lat, lon, metro, area) ==
    [CountryCode |-> cc, RegionCode |-> rc, CityName |-> city, ZipCode |-> zip,
     Latitude |-> lat, Longitude |-> lon, MetroCode |-> metro, AreaCode |-> area]

Block(start, end, locId) == [IpStart |-> U32(start), IpEnd |-> U32(end), LocId |-> locId]

\* &GeoIP{Ip: s}: every other field is its zero value.
GeoIP(s) ==
    [Ip |-> s, CountryCode |-> "", CountryName |-> "", RegionCode |-> "",
     RegionName |-> "", CityName |-> "", ZipCode |-> "", Latitude |-> 0,
     Longitude |-> 0, MetroCode |-> "", AreaCode |-> ""]

Cache(country, region, cityLocation, cityBlock) ==
    [Country |-> country, Region |-> region, CityLocation |-> cityLocation,
     CityBlock |-> cityBlock]

----------------------------------------------------------------------------
(* The rows the external source may deliver, and the addresses queried. *)

CountryRows == { <<"US", "United States">> }
RegionRows == { <<"US", "CA", "California">> }
LocationRows ==
    { <<1, Location("US", "CA", "Mountain View", "94043", 37, -122, "807", "650")>>,
      <<2, Location("BR", "SP", "Sao Paulo", "01000", -23, -46, "", "")>> }

B1 == Block(IPv4(8, 8, 4, 0), IPv4(8, 8, 4, 255), 1)
B2 == Block(IPv4(8, 8, 8, 0), IPv4(8, 8, 8, 255), 2)
\* same start as B1, overlaps B2, location id with no row in city_location
B3 == Block(IPv4(8, 8, 4, 0), IPv4(8, 8, 8, 8), 3)
\* reaches into the reserved 10.0.0.0/8
B4 == Block(IPv4(9, 255, 255, 255), IPv4(10, 0, 0, 0), 1)
\* end before start
B5 == Block(IPv4(8, 8, 8, 8), IPv4(8, 8, 4, 0), 2)

BlockRows == {B1, B2, B3, B4, B5}

PublicAddrs ==
    { IPv4(8, 8, 3, 255), IPv4(8, 8, 4, 0), IPv4(8, 8, 4, 255), IPv4(8, 8, 5, 0),
      IPv4(8, 8, 8, 0), IPv4(8, 8, 8, 8), IPv4(8, 8, 8, 255), IPv4(8, 8, 9, 0),
      IPv4(9, 255, 255, 255), IPv4(11, 0, 0, 0), IPv4(192, 0, 0, 8),
      IPv4(223, 255, 255, 255) }

ReservedAddrs ==
    { IPv4(0, 255, 255, 255), IPv4(10, 0, 0, 0), IPv4(10, 1, 2, 3),
      IPv4(100, 127, 255, 255), IPv4(127, 0, 0, 1), IPv4(169, 254, 1, 1),
      IPv4(172, 31, 255, 255), IPv4(192, 0, 0, 7), IPv4(192, 0, 2, 1),
      IPv4(192, 88, 99, 255), IPv4(192, 168, 0, 1), IPv4(198, 19, 255, 255),
      IPv4(198, 51, 100, 0), IPv4(203, 0, 113, 9), IPv4(224, 0, 0, 0),
      IPv4(240, 0, 0, 1), IPv4(255, 255, 255, 255) }

Addrs == PublicAddrs \cup ReservedAddrs

----------------------------------------------------------------------------
(* sort.Sort(cache.CityBlock): on a slice this short, an insertion sort    *)
(* driven by BlockList.Less and BlockList.Swap.                            *)

Swap(p, i, j) == [p EXCEPT ![i] = p[j], ![j] = p[i]]

\* a comparison turned around
LessDescending(p, i, j) == Gt32(p[i].IpStart, p[j].IpStart)

Less(p, i, j) == Lt32(p[i].IpStart, p[j].IpStart)

RECURSIVE InsertDown(_, _)
InsertDown(p, j) ==
    IF j > 1 /\ Less(p, j, j - 1) THEN InsertDown(Swap(p, j, j - 1), j - 1) ELSE p

RECURSIVE InsertionSort(_, _)
InsertionSort(p, i) ==
    IF i <= Len(p) THEN InsertionSort(InsertDown(p, i), i + 1) ELSE p

Sort(p) == InsertionSort(p, 2)

----------------------------------------------------------------------------
(* Cache.Query and Cache.Update *)

IsReserved(IP) == \E i \in 1..Len(reservedIPs) : Contains(reservedIPs[i], IP)

\* the scan breaking at IpStart >= nIP
RECURSIVE ScanGE(_, _, _)
ScanGE(blocks, nIP, n) ==
    IF n < Len(blocks) /\ Lt32(blocks[n + 1].IpStart, nIP)
    THEN ScanGE(blocks, nIP, n + 1)
    ELSE n

\* for n = 0; n < len(CityBlock); n++ { if CityBlock[n].IpStart > nIP { break } }
\* (n counts from 0 as in the source; CityBlock[n] is blocks[n + 1] here)
RECURSIVE Scan(_, _, _)
Scan(blocks, nIP, n) ==
    IF n < Len(blocks) /\ ~Gt32(blocks[n + 1].IpStart, nIP)
    THEN Scan(blocks, nIP, n + 1)
    ELSE n

\* the end taken as exclusive
CoversEndExclusive(b, nIP) == Lt32(nIP, b.IpEnd)

\* the end not looked at
CoversAlways(b, nIP) == TRUE

\* nIP <= cache.CityBlock[n].IpEnd
Covers(b, nIP) == Le32(nIP, b.IpEnd)

\* a join that gives up when the country or the region is unknown
UpdateStrictJoin(c, g, locId) ==
    IF locId \notin DOMAIN c.CityLocation
    THEN g
    ELSE LET city == c.CityLocation[locId]
         IN  IF \/ city.CountryCode \notin DOMAIN c.Country
                \/ RegionKey(city.CountryCode, city.RegionCode) \notin DOMAIN c.Region
             THEN g
             ELSE [g EXCEPT !.CountryCode = city.CountryCode,
                            !.CountryName = c.Country[city.CountryCode],
                            !.RegionCode = city.RegionCode,
                            !.RegionName = c.Region[RegionKey(city.CountryCode, city.RegionCode)],
                            !.CityName = city.CityName,
                            !.ZipCode = city.ZipCode,
                            !.Latitude = city.Latitude,
                            !.Longitude = city.Longitude,
                            !.MetroCode = city.MetroCode,
                            !.AreaCode = city.AreaCode]

Update(c, g, locId) ==
    IF locId \notin DOMAIN c.CityLocation
    THEN g
    ELSE LET city == c.CityLocation[locId]
         IN  [g EXCEPT !.CountryCode = city.CountryCode,
                       !.CountryName = MapGet(c.Country, city.CountryCode),
                       !.RegionCode = city.RegionCode,
                       !.RegionName = MapGet(c.Region, RegionKey(city.CountryCode, city.RegionCode)),
                       !.CityName = city.CityName,
                       !.ZipCode = city.ZipCode,
                       !.Latitude = city.Latitude,
                       !.Longitude = city.Longitude,
                       !.MetroCode = city.MetroCode,
                       !.AreaCode = city.AreaCode]

Reserved(g) == [g EXCEPT !.CountryCode = "RD", !.CountryName = "Reserved"]

\* the reserved check made only when the index has no answer
QueryIndexFirst(c, IP, nIP) ==
    LET g == GeoIP(IPString(IP))
        n == Scan(c.CityBlock, nIP, 0)
    IN  IF n > 0 /\ Covers(c.CityBlock[n], nIP)
        THEN Update(c, g, c.CityBlock[n].LocId)
        ELSE IF IsReserved(IP) THEN Reserved(g) ELSE g

Query(c, IP, nIP) ==
    LET g == GeoIP(IPString(IP))
    IN  IF IsReserved(IP)
        THEN Reserved(g)
        ELSE LET n == Scan(c.CityBlock, nIP, 0)
             IN  IF n > 0 /\ Covers(c.CityBlock[n], nIP)
                 THEN Update(c, g, c.CityBlock[n].LocId)
                 ELSE g

----------------------------------------------------------------------------
(* NewCache, one step per loop iteration.  The source's content is what    *)
(* row.Next()/row.Scan() deliver, row by row.                              *)

InitCache ==
    /\ pc = "countries"
    /\ cache = Cache(EmptyMap, EmptyMap, EmptyMap, <<>>)
    /\ rowsErr = FALSE
    /\ qIP = <<>>
    /\ geoip = GeoIP("")

LoadCountry ==
    /\ pc = "countries"
    /\ \E r \in CountryRows :
          cache' = [cache EXCEPT !.Country = MapPut(@, r[1], r[2])]
    /\ UNCHANGED <<pc, rowsErr, qIP, geoip, concVars, metricVars>>

LoadRegion ==
    /\ pc = "regions"
    /\ \E r \in RegionRows :
          cache' = [cache EXCEPT !.Region = MapPut(@, RegionKey(r[1], r[2]), r[3])]
    /\ UNCHANGED <<pc, rowsErr, qIP, geoip, concVars, metricVars>>

LoadLocation ==
    /\ pc = "locations"
    /\ \E r \in LocationRows :
          cache' = [cache EXCEPT !.CityLocation = MapPut(@, r[1], r[2])]
    /\ UNCHANGED <<pc, rowsErr, qIP, geoip, concVars, metricVars>>

LoadBlock ==
    /\ pc = "blocks"
    /\ Len(cache.CityBlock) < MaxBlocks
    /\ \E b \in BlockRows :
          cache' = [cache EXCEPT !.CityBlock = Append(@, b)]
    /\ UNCHANGED <<pc, rowsErr, qIP, geoip, concVars, metricVars>>

\* row.Next() returns false: the rows are exhausted (err = FALSE) or advancing
\* failed (err = TRUE, reported only by rows.Err()).  The loop ends either way.
NextStage(s) ==
    CASE s = "countries" -> "regions"
      [] s = "regions"   -> "locations"
      [] s = "locations" -> "blocks"

EndRows ==
    /\ pc \in {"countries", "regions", "locations"}
    /\ \E err \in BOOLEAN : rowsErr' = (rowsErr \/ err)
    /\ pc' = NextStage(pc)
    /\ UNCHANGED <<cache, qIP, geoip, concVars, metricVars>>

\* the last loop ends; sort.Sort(cache.CityBlock); return cache
EndBlocks ==
    /\ pc = "blocks"
    /\ \E err \in BOOLEAN : rowsErr' = (rowsErr \/ err)
    /\ cache' = [cache EXCEPT !.CityBlock = Sort(@)]
    /\ pc' = "done"
    /\ UNCHANGED <<qIP, geoip, concVars, metricVars>>

\* log.Fatal: db.Query or row.Scan returned an error
LogFatal ==
    /\ pc \in {"countries", "regions", "locations", "blocks"}
    /\ pc' = "fatal"
    /\ UNCHANGED <<cache, rowsErr, qIP, geoip, concVars, metricVars>>

\* a caller's Query(IP, nIP), nIP the numeric form of IP
DoQuery ==
    /\ pc = "done"
    /\ qIP = <<>>
    /\ \E IP \in Addrs :
          /\ qIP' = IP
          /\ geoip' = Query(cache, IP, U32(IP))
    /\ UNCHANGED <<pc, cache, rowsErr, concVars, metricVars>>

\* the caller has written its response; the result is dropped
Respond ==
    /\ pc = "done"
    /\ qIP # <<>>
    /\ qIP' = <<>>
    /\ geoip' = GeoIP("")
    /\ UNCHANGED <<pc, cache, rowsErr, concVars, metricVars>>

IdleConc == tl = <<>> /\ objs = <<>>
IdleMetrics ==
    /\ Metrics = EmptyMap
    /\ nIncr = EmptyMap
    /\ nDecr = EmptyMap
    /\ touched = {}
    /\ got = [op |-> "", name |-> "", ret |-> 0]

Init == InitCache /\ IdleConc /\ IdleMetrics

Next ==
    \/ LoadCountry
    \/ LoadRegion
    \/ LoadLocation
    \/ LoadBlock
    \/ EndRows
    \/ EndBlocks
    \/ LogFatal
    \/ DoQuery
    \/ Respond

Spec == Init /\ [][Next]_vars

----------------------------------------------------------------------------
(* Query called by concurrent callers on the cache NewCache returned, one  *)
(* step per statement that reads the cache or writes the result.           *)

Threads == {1, 2}

ConcAddrs == { IPv4(8, 8, 4, 0), IPv4(8, 8, 5, 0), IPv4(8, 8, 8, 8), IPv4(10, 0, 0, 0) }

IdleLocals == [pc |-> "idle", IP |-> <<>>, nIP |-> <<>>, n |-> 0, geoip |-> 0]

\* every call's &GeoIP{...} is one object shared by all callers
AllocShared(t) == 1

\* geoip := &GeoIP{...}: a new object for every call (named after the caller,
\* whose previous object is unreachable by then)
Alloc(t) == t

RECURSIVE PutAll(_, _)
PutAll(m, rows) ==
    IF rows = {} THEN m
    ELSE LET r == CHOOSE x \in rows : TRUE
         IN  PutAll(MapPut(m, r[1], r[2]), rows \ {r})

BlockLists(max) == UNION { [1..k -> BlockRows] : k \in 0..max }

\* the caches NewCache returns for complete reference tables
LoadedCaches ==
    { Cache(PutAll(EmptyMap, CountryRows),
            PutAll(EmptyMap, { <<RegionKey(r[1], r[2]), r[3]>> : r \in RegionRows }),
            PutAll(EmptyMap, LocationRows),
            Sort(bl)) : bl \in BlockLists(MaxConcBlocks) }

InitConc ==
    /\ pc = "done"
    /\ cache \in LoadedCaches
    /\ rowsErr = FALSE
    /\ qIP = <<>>
    /\ geoip = GeoIP("")
    /\ tl = [t \in Threads |-> IdleLocals]
    /\ objs = [o \in Threads |-> GeoIP("")]
    /\ IdleMetrics

\* lines 183-196: the reserved check, the new GeoIP, the reserved answer
QBegin(t) ==
    /\ tl[t].pc = "idle"
    /\ \E IP \in ConcAddrs :
          LET o == Alloc(t)
              g == GeoIP(IPString(IP))
          IN  IF IsReserved(IP)
              THEN /\ objs' = [objs EXCEPT ![o] = Reserved(g)]
                   /\ tl' = [tl EXCEPT ![t] = [pc |-> "return", IP |-> IP, nIP |-> U32(IP),
                                                n |-> 0, geoip |-> o]]
              ELSE /\ objs' = [objs EXCEPT ![o] = g]
                   /\ tl' = [tl EXCEPT ![t] = [pc |-> "scan", IP |-> IP, nIP |-> U32(IP),
                                                n |-> 0, geoip |-> o]]
    /\ UNCHANGED <<pc, cache, rowsErr, qIP, geoip, metricVars>>

\* lines 199-203: one turn of the scan
QScan(t) ==
    /\ tl[t].pc = "scan"
    /\ LET n == tl[t].n
       IN  IF n < Len(cache.CityBlock) /\ ~Gt32(cache.CityBlock[n + 1].IpStart, tl[t].nIP)
           THEN tl' = [tl EXCEPT ![t].n = n + 1]
           ELSE tl' = [tl EXCEPT ![t].pc = "select"]
    /\ UNCHANGED <<pc, cache, rowsErr, qIP, geoip, objs, metricVars>>

\* lines 205-207: step back one entry and compare with its end
QSelect(t) ==
    /\ tl[t].pc = "select"
    /\ LET n == tl[t].n
       IN  IF n > 0
           THEN IF Covers(cache.CityBlock[n], tl[t].nIP)
                THEN tl' = [tl EXCEPT ![t].n = n - 1, ![t].pc = "update"]
                ELSE tl' = [tl EXCEPT ![t].n = n - 1, ![t].pc = "return"]
           ELSE tl' = [tl EXCEPT ![t].pc = "return"]
    /\ UNCHANGED <<pc, cache, rowsErr, qIP, geoip, objs, metricVars>>

\* line 208: cache.Update(geoip, cache.CityBlock[n].LocId)
QUpdate(t) ==
    /\ tl[t].pc = "update"
    /\ LET o == tl[t].geoip
       IN  objs' = [objs EXCEPT ![o] = Update(cache, objs[o], cache.CityBlock[tl[t].n + 1].LocId)]
    /\ tl' = [tl EXCEPT ![t].pc = "return"]
    /\ UNCHANGED <<pc, cache, rowsErr, qIP, geoip, metricVars>>

\* line 212: return geoip; the caller holds the result
QReturn(t) ==
    /\ tl[t].pc = "return"
    /\ tl' = [tl EXCEPT ![t].pc = "done"]
    /\ UNCHANGED <<pc, cache, rowsErr, qIP, geoip, objs, metricVars>>

\* the caller has written its response and drops the result
QRespond(t) ==
    /\ tl[t].pc = "done"
    /\ objs' = [objs EXCEPT ![tl[t].geoip] = GeoIP("")]
    /\ tl' = [tl EXCEPT ![t] = IdleLocals]
    /\ UNCHANGED <<pc, cache, rowsErr, qIP, geoip, metricVars>>

NextConc ==
    \/ \E t \in Threads : QBegin(t)
    \/ \E t \in Threads : QScan(t)
    \/ \E t \in Threads : QSelect(t)
    \/ \E t \in Threads : QUpdate(t)
    \/ \E t \in Threads : QReturn(t)
    \/ \E t \in Threads : QRespond(t)

ConcSpec == InitConc /\ [][NextConc]_vars

----------------------------------------------------------------------------
(* MetricRegistry *)

Names == {"hits", "misses"}

NoCall == [op |-> "", name |-> "", ret |-> 0]

\* c := 0; m.Metrics[name] = &c
NewCounter(M, name) == MapPut(M, name, 0)

\* a counter made anew at every use
GetCounterAlwaysNew(M, name) == NewCounter(M, name)

\* the registry after GetCounter(name); the counter returned is its cell at name
GetCounter(M, name) == IF name \in DOMAIN M THEN M ELSE NewCounter(M, name)

InitMetrics ==
    /\ InitCache
    /\ IdleConc
    /\ Metrics = EmptyMap
    /\ nIncr = [n \in Names |-> 0]
    /\ nDecr = [n \in Names |-> 0]
    /\ touched = {}
    /\ got = NoCall

Incr ==
    \E name \in Names :
        /\ nIncr[name] < MaxCount
        /\ Metrics' = [GetCounter(Metrics, name) EXCEPT ![name] = @ + 1]
        /\ nIncr' = [nIncr EXCEPT ![name] = @ + 1]
        /\ touched' = touched \cup {name}
        /\ got' = [op |-> "Incr", name |-> name, ret |-> 0]
        /\ UNCHANGED <<nDecr, cacheVars, concVars>>

Decr ==
    \E name \in Names :
        /\ nDecr[name] < MaxCount
        /\ Metrics' = [GetCounter(Metrics, name) EXCEPT ![name] = @ - 1]
        /\ nDecr' = [nDecr EXCEPT ![name] = @ + 1]
        /\ touched' = touched \cup {name}
        /\ got' = [op |-> "Decr", name |-> name, ret |-> 0]
        /\ UNCHANGED <<nIncr, cacheVars, concVars>>

Get ==
    \E name \in Names :
        /\ Metrics' = GetCounter(Metrics, name)
        /\ got' = [op |-> "Get", name |-> name, ret |-> Metrics'[name]]
        /\ touched' = touched \cup {name}
        /\ UNCHANGED <<nIncr, nDecr, cacheVars, concVars>>

Reset ==
    \E name \in Names :
        /\ Metrics' = [GetCounter(Metrics, name) EXCEPT ![name] = 0]
        /\ nIncr' = [nIncr EXCEPT ![name] = 0]
        /\ nDecr' = [nDecr EXCEPT ![name] = 0]
        /\ touched' = touched \cup {name}
        /\ got' = [op |-> "Reset", name |-> name, ret |-> 0]
        /\ UNCHANGED <<cacheVars, concVars>>

NextMetrics ==
    \/ Incr
    \/ Decr
    \/ Get
    \/ Reset

MetricSpec == InitMetrics /\ [][NextMetrics]_vars

----------------------------------------------------------------------------
(* What the claims speak of, stated without the lookup's own operators. *)

\* the prefix length of each entry of the reserved table, in table order
PrefixLen == <<8, 8, 10, 8, 16, 12, 29, 24, 24, 16, 15, 24, 24, 4, 4, 32>>

RECURSIVE Pow2(_)
Pow2(k) == IF k = 0 THEN 1 ELSE 2 * Pow2(k - 1)

\* IP lies in the CIDR block i: the leading PrefixLen[i] bits agree
InBlock(IP, i) ==
    LET p == PrefixLen[i]
        a == U32(IP)
        b == U32(reservedIPs[i].IP)
    IN  IF p <= 16
        THEN a[1] \div Pow2(16 - p) = b[1] \div Pow2(16 - p)
        ELSE a[1] = b[1] /\ a[2] \div Pow2(32 - p) = b[2] \div Pow2(32 - p)

InReservedTable(IP) == \E i \in 1..Len(reservedIPs) : InBlock(IP, i)

AddressOnly(IP) ==
    [Ip |-> IPString(IP), CountryCode |-> "", CountryName |-> "", RegionCode |-> "",
     RegionName |-> "", CityName |-> "", ZipCode |-> "", Latitude |-> 0,
     Longitude |-> 0, MetroCode |-> "", AreaCode |-> ""]

\* the record joined through location id locId
Joined(c, IP, locId) ==
    IF locId \notin DOMAIN c.CityLocation
    THEN AddressOnly(IP)
    ELSE LET l == c.CityLocation[locId]
             k == <<l.CountryCode, l.RegionCode>>
         IN  [Ip |-> IPString(IP),
              CountryCode |-> l.CountryCode,
              CountryName |-> IF l.CountryCode \in DOMAIN c.Country
                              THEN c.Country[l.CountryCode] ELSE "",
              RegionCode |-> l.RegionCode,
              RegionName |-> IF k \in DOMAIN c.Region THEN c.Region[k] ELSE "",
              CityName |-> l.CityName, ZipCode |-> l.ZipCode,
              Latitude |-> l.Latitude, Longitude |-> l.Longitude,
              MetroCode |-> l.MetroCode, AreaCode |-> l.AreaCode]

InRange(b, n) == Le32(b.IpStart, n) /\ Le32(n, b.IpEnd)

\* every row has start <= end and no two rows share an address
WellFormed(blocks) ==
    /\ \A i \in 1..Len(blocks) : Le32(blocks[i].IpStart, blocks[i].IpEnd)
    /\ \A i, j \in 1..Len(blocks) :
          i # j => (Lt32(blocks[i].IpEnd, blocks[j].IpStart)
                      \/ Lt32(blocks[j].IpEnd, blocks[i].IpStart))

SortedByStart(blocks) ==
    \A i \in 1..(Len(blocks) - 1) : Le32(blocks[i].IpStart, blocks[i + 1].IpStart)

NoAdjacentOverlap(blocks) ==
    \A i \in 1..(Len(blocks) - 1) : Lt32(blocks[i].IpEnd, blocks[i + 1].IpStart)

\* the position of the last entry whose start is <= n (0: none)
LastStartAtMost(blocks, n) ==
    LET S == {i \in 1..Len(blocks) : Le32(blocks[i].IpStart, n)}
    IN  IF S = {} THEN 0 ELSE CHOOSE i \in S : \A j \in S : j <= i

\* binary search for the number of leading entries whose start is <= n
RECURSIVE BinarySearch(_, _, _, _)
BinarySearch(blocks, n, lo, hi) ==
    IF lo < hi
    THEN LET mid == (lo + hi) \div 2
         IN  IF Le32(blocks[mid + 1].IpStart, n)
             THEN BinarySearch(blocks, n, mid + 1, hi)
             ELSE BinarySearch(blocks, n, lo, mid)
    ELSE lo

Reorderings(s) ==
    { [i \in 1..Len(s) |-> s[f[i]]] :
        f \in {g \in [1..Len(s) -> 1..Len(s)] : \A i, j \in 1..Len(s) : g[i] = g[j] => i = j} }

Queried == pc = "done" /\ qIP # <<>>
Blocks == cache.CityBlock
Loaded(b) == \E i \in 1..Len(Blocks) : Blocks[i] = b

----------------------------------------------------------------------------
(* The claims *)

\* C1: for every address inside a block of the reserved table, Query returns
\* countryCode "RD", countryName "Reserved", the echoed address and nothing
\* else, whatever the loaded tables hold for that address.
C1_ReservedWins ==
    (Queried /\ InReservedTable(qIP)) =>
        /\ geoip = [AddressOnly(qIP) EXCEPT !.CountryCode = "RD", !.CountryName = "Reserved"]
        /\ (qIP = IPv4(10, 1, 2, 3) => geoip.Ip = "10.1.2.3")

\* a reserved address that a loaded range with a known location also covers
C1_Witness ==
    /\ Queried
    /\ qIP = IPv4(10, 0, 0, 0)
    /\ Loaded(B4)
    /\ 1 \in DOMAIN cache.CityLocation
    /\ geoip.CountryCode = "RD"

\* C2 (as claimed): for every non-reserved address inside [rangeStart, rangeEnd]
\* of some loaded range, Query returns the record joined through that range's
\* location id.
C2_AnyCoveringRange ==
    (Queried /\ ~InReservedTable(qIP)) =>
        \A i \in 1..Len(Blocks) :
            InRange(Blocks[i], U32(qIP)) => geoip = Joined(cache, qIP, Blocks[i].LocId)

\* C2 (amended): the same, for loaded ranges that are well formed and pairwise
\* disjoint.
C2_CoveringRangeOfDisjointIndex ==
    (Queried /\ ~InReservedTable(qIP) /\ WellFormed(Blocks)) =>
        \A i \in 1..Len(Blocks) :
            InRange(Blocks[i], U32(qIP)) => geoip = Joined(cache, qIP, Blocks[i].LocId)

\* the address equal to the end of a loaded range, joined to its location
C2_Witness ==
    /\ Queried
    /\ qIP = IPv4(8, 8, 4, 255)
    /\ WellFormed(Blocks)
    /\ Loaded(B1) /\ Loaded(B2)
    /\ cache.Country # EmptyMap /\ cache.Region # EmptyMap
    /\ geoip.CityName = "Mountain View"
    /\ geoip.CountryName = "United States"
    /\ geoip.RegionName = "California"

\* C3: for every non-reserved address that no loaded range covers, Query returns
\* a record with only the echoed address; also for the empty index.
C3_Uncovered ==
    (Queried /\ ~InReservedTable(qIP)
        /\ \A i \in 1..Len(Blocks) : ~InRange(Blocks[i], U32(qIP)))
    => geoip = AddressOnly(qIP)

\* an address in the gap between two loaded ranges
C3_Witness ==
    /\ Queried
    /\ qIP = IPv4(8, 8, 5, 0)
    /\ Loaded(B1) /\ Loaded(B2)
    /\ 1 \in DOMAIN cache.CityLocation
    /\ geoip = AddressOnly(qIP)

\* C4: NewCache returns a cache only if no read failed, a failure to advance
\* the row iterator included.
C4_NoPartialLoad == pc = "done" => ~rowsErr

\* C5 (as claimed): after the load the index is sorted by rangeStart and no two
\* adjacent entries overlap.
C5_SortedAndDisjoint ==
    pc = "done" => SortedByStart(Blocks) /\ NoAdjacentOverlap(Blocks)

\* C5 (amended): after the load the index is sorted by rangeStart; adjacent
\* entries do not overlap when the rows delivered are well formed and pairwise
\* disjoint.
C5_SortedAndDisjointIfRowsAre ==
    pc = "done" =>
        /\ SortedByStart(Blocks)
        /\ (WellFormed(Blocks) => NoAdjacentOverlap(Blocks))

\* three disjoint rows, loaded and sorted
C5_Witness ==
    /\ pc = "done"
    /\ Blocks = <<B1, B2, B4>>

\* C6: a join miss empties only the fields it feeds: an unknown location id
\* leaves the address alone; an unknown country (region) leaves countryName
\* (regionName) empty and every field of the location record populated.
C6_JoinMiss ==
    LET k == LastStartAtMost(Blocks, U32(qIP))
    IN  (Queried /\ ~InReservedTable(qIP) /\ k > 0 /\ Le32(U32(qIP), Blocks[k].IpEnd)) =>
            LET id == Blocks[k].LocId
                l == cache.CityLocation[id]
            IN  /\ id \notin DOMAIN cache.CityLocation => geoip = AddressOnly(qIP)
                /\ id \in DOMAIN cache.CityLocation =>
                      /\ geoip.CountryCode = l.CountryCode
                      /\ geoip.RegionCode = l.RegionCode
                      /\ geoip.CityName = l.CityName
                      /\ geoip.ZipCode = l.ZipCode
                      /\ geoip.Latitude = l.Latitude
                      /\ geoip.Longitude = l.Longitude
                      /\ geoip.MetroCode = l.MetroCode
                      /\ geoip.AreaCode = l.AreaCode
                      /\ (l.CountryCode \notin DOMAIN cache.Country => geoip.CountryName = "")
                      /\ (<<l.CountryCode, l.RegionCode>> \notin DOMAIN cache.Region
                            => geoip.RegionName = "")

\* a location whose country is unknown and whose region is known
C6_Witness ==
    /\ Queried
    /\ qIP = IPv4(8, 8, 4, 0)
    /\ Blocks = <<B1>>
    /\ 1 \in DOMAIN cache.CityLocation
    /\ cache.Country = EmptyMap
    /\ geoip.CountryCode = "US"
    /\ geoip.CountryName = ""
    /\ geoip.RegionName = "California"
    /\ geoip.CityName = "Mountain View"

\* C8: the result of a Query depends on the address and on the rows loaded,
\* not on the order in which the source delivered them.
C8_OrderIndependent ==
    Queried =>
        \A p \in Reorderings(Blocks) :
            Query([cache EXCEPT !.CityBlock = Sort(p)], qIP, U32(qIP)) = geoip

\* C9: on the sorted index the forward scan stops where a binary search does:
\* at the entry with the greatest rangeStart <= nIP, and at none exactly when
\* nIP precedes every rangeStart; the result is the same.
C9_ScanIsBinarySearch ==
    (Queried /\ ~InReservedTable(qIP)) =>
        LET nIP == U32(qIP)
            n == Scan(Blocks, nIP, 0)
            k == BinarySearch(Blocks, nIP, 0, Len(Blocks))
        IN  /\ n = k
            /\ (n = 0 <=> \A i \in 1..Len(Blocks) : Gt32(Blocks[i].IpStart, nIP))
            /\ n > 0 =>
                  /\ Le32(Blocks[n].IpStart, nIP)
                  /\ \A i \in 1..Len(Blocks) :
                        Le32(Blocks[i].IpStart, nIP) => Le32(Blocks[i].IpStart, Blocks[n].IpStart)
            /\ geoip = IF k > 0 /\ Le32(nIP, Blocks[k].IpEnd)
                       THEN Joined(cache, qIP, Blocks[k].LocId)
                       ELSE AddressOnly(qIP)

\* the scan stops in the middle of a three-entry index
C9_Witness ==
    /\ Queried
    /\ qIP = IPv4(8, 8, 8, 8)
    /\ Blocks = <<B1, B2, B4>>
    /\ 2 \in DOMAIN cache.CityLocation
    /\ geoip.CityName = "Sao Paulo"

\* C7: concurrent Query calls never modify the tables, a step of one call
\* writes nothing another call holds, and every call returns what the same
\* call returns when run alone, so calls with the same address return
\* identical results.
QueryAlone(t) == Query(cache, tl[t].IP, tl[t].nIP)

ResultsAgree ==
    /\ \A t \in Threads : tl[t].pc = "done" => objs[tl[t].geoip] = QueryAlone(t)
    /\ \A t, u \in Threads :
          (tl[t].pc = "done" /\ tl[u].pc = "done" /\ tl[t].IP = tl[u].IP)
              => objs[tl[t].geoip] = objs[tl[u].geoip]

NoSharedWrite ==
    \A t, u \in Threads :
        (t # u /\ tl'[t] # tl[t]) =>
            /\ tl'[u] = tl[u]
            /\ (tl[u].pc # "idle" => objs'[tl[u].geoip] = objs[tl[u].geoip])

C7_PureRead ==
    [][cache' = cache /\ NoSharedWrite /\ ResultsAgree']_vars

\* two callers hold the results of the same address at once, each of them
\* joined to a location
C7_Witness ==
    /\ tl # <<>>
    /\ \A t \in Threads : tl[t].pc = "done" /\ tl[t].IP = IPv4(8, 8, 8, 8)
    /\ objs[tl[1].geoip].CityName = "Sao Paulo"
    /\ objs[tl[2].geoip].CityName = "Sao Paulo"
    /\ tl[1].geoip # tl[2].geoip

\* C10: Get(name) is the number of Incr(name) less the number of Decr(name)
\* since the last Reset(name); a name not used before reads 0 and exists from
\* its first use; a call with one name changes no counter of another name.
Value(M, name) == IF name \in DOMAIN M THEN M[name] ELSE 0

CountersCount ==
    /\ \A name \in Names : Value(Metrics, name) = nIncr[name] - nDecr[name]
    /\ DOMAIN Metrics = touched
    /\ got.op = "Get" => got.ret = nIncr[got.name] - nDecr[got.name]

OtherNamesKept ==
    \A name \in Names : name # got'.name => Value(Metrics', name) = Value(Metrics, name)

C10_Counters == CountersCount /\ [][CountersCount' /\ OtherNamesKept]_vars

\* after Incr, Incr, Decr on one name and nothing on the other, Get reads 1
C10_Witness ==
    /\ got = [op |-> "Get", name |-> "hits", ret |-> 1]
    /\ nIncr["hits"] = 2
    /\ nDecr["hits"] = 1
    /\ DOMAIN Metrics = {"hits"}

====
